---- MODULE Spec2Model ----
(***************************************************************************)
(* Model of generate_reference.py: the enumeration driver that decodes     *)
(* every bit pattern of three minifloat formats, renders each decoded      *)
(* value as a string, stores the reference table and prints a summary.     *)
(* Strings are modelled as sequences of one-character strings so that      *)
(* equality and substring tests are computed, not assumed.                 *)
(***************************************************************************)
EXTENDS Integers, Sequences, FiniteSets, TLC

VARIABLES pc, fi, name, fmt, total_bits, it, bits, val, val_str, binary,
          entries, result, file, si, out

vars == <<pc, fi, name, fmt, total_bits, it, bits, val, val_str, binary,
          entries, result, file, si, out>>

(***************************************************************************)
(* Format descriptors (section 3 of the specification).                    *)
(***************************************************************************)
format_info_ocp_e5m2 ==
    [total_bits |-> 8, exponent_bits |-> 5, mantissa_bits |-> 2, bias |-> 15,
     has_infinity |-> TRUE, nan_mantissa_codes |-> {1, 2, 3}]

format_info_ocp_e4m3 ==
    [total_bits |-> 8, exponent_bits |-> 4, mantissa_bits |-> 3, bias |-> 7,
     has_infinity |-> FALSE, nan_mantissa_codes |-> {7}]

format_info_ocp_e2m1 ==
    [total_bits |-> 4, exponent_bits |-> 2, mantissa_bits |-> 1, bias |-> 1,
     has_infinity |-> FALSE, nan_mantissa_codes |-> {}]

(***************************************************************************)
(* Decoded values.  A Finite value is sign * mant * 2^exp, exactly.        *)
(***************************************************************************)
Zero(sign) == [tag |-> "Zero", sign |-> sign, mant |-> 0, exp |-> 0]

Infinity(sign) == [tag |-> "Infinity", sign |-> sign, mant |-> 0, exp |-> 0]

NaN == [tag |-> "NaN", sign |-> 0, mant |-> 0, exp |-> 0]

Finite(sign, mant, exp) == [tag |-> "Finite", sign |-> sign, mant |-> mant, exp |-> exp]

ValueError == [tag |-> "ValueError", sign |-> 0, mant |-> 0, exp |-> 0]

sign_bit(f, b) == (b \div 2^(f.total_bits - 1)) % 2

exponent_field(f, b) == (b \div 2^f.mantissa_bits) % 2^f.exponent_bits

mantissa_field(f, b) == b % 2^f.mantissa_bits

(* A decoder that gives subnormals the implicit leading 1 of normals. *)
decode_float_ImplicitOne(f, b) ==
    IF b < 0 \/ b >= 2^f.total_bits THEN ValueError
    ELSE
    LET sign == IF sign_bit(f, b) = 1 THEN -1 ELSE 1
        e    == exponent_field(f, b)
        m    == mantissa_field(f, b)
    IN  IF e = 0
          THEN IF m = 0 THEN Zero(sign)
                        ELSE Finite(sign, 2^f.mantissa_bits + m, 1 - f.bias - f.mantissa_bits)
        ELSE IF e = 2^f.exponent_bits - 1 /\ f.has_infinity /\ m = 0
          THEN Infinity(sign)
        ELSE IF e = 2^f.exponent_bits - 1 /\ m \in f.nan_mantissa_codes
          THEN NaN
        ELSE Finite(sign, 2^f.mantissa_bits + m, e - f.bias - f.mantissa_bits)

(* decode(descriptor, bits), section 4.2: steps 1 to 5 in order. *)
decode_float(f, b) ==
    IF b < 0 \/ b >= 2^f.total_bits THEN ValueError
    ELSE
    LET sign == IF sign_bit(f, b) = 1 THEN -1 ELSE 1
        e    == exponent_field(f, b)
        m    == mantissa_field(f, b)
        special == f.has_infinity \/ f.nan_mantissa_codes # {}
    IN  IF e = 0
          THEN IF m = 0 THEN Zero(sign)
                        ELSE Finite(sign, m, 1 - f.bias - f.mantissa_bits)
        ELSE IF e = 2^f.exponent_bits - 1 /\ special /\ f.has_infinity /\ m = 0
          THEN Infinity(sign)
        ELSE IF e = 2^f.exponent_bits - 1 /\ special /\ m \in f.nan_mantissa_codes
          THEN NaN
        ELSE Finite(sign, 2^f.mantissa_bits + m, e - f.bias - f.mantissa_bits)

(* A table whose first width is mistyped as 7. *)
FORMATS_WidthTypo ==
    << [name |-> "f8e5m2",   fmt |-> format_info_ocp_e5m2, total_bits |-> 7],
       [name |-> "f8e4m3fn", fmt |-> format_info_ocp_e4m3, total_bits |-> 8],
       [name |-> "f4e2m1",   fmt |-> format_info_ocp_e2m1, total_bits |-> 4] >>

(* A table whose last width is mistyped as 5. *)
FORMATS_TooWide ==
    << [name |-> "f8e5m2",   fmt |-> format_info_ocp_e5m2, total_bits |-> 8],
       [name |-> "f8e4m3fn", fmt |-> format_info_ocp_e4m3, total_bits |-> 8],
       [name |-> "f4e2m1",   fmt |-> format_info_ocp_e2m1, total_bits |-> 5] >>

(* A table with the two 8-bit format objects exchanged. *)
FORMATS_Swapped ==
    << [name |-> "f8e5m2",   fmt |-> format_info_ocp_e4m3, total_bits |-> 8],
       [name |-> "f8e4m3fn", fmt |-> format_info_ocp_e5m2, total_bits |-> 8],
       [name |-> "f4e2m1",   fmt |-> format_info_ocp_e2m1, total_bits |-> 4] >>

(***************************************************************************)
(* The driver's configuration table.                                       *)
(***************************************************************************)
FORMATS ==
    << [name |-> "f8e5m2",   fmt |-> format_info_ocp_e5m2, total_bits |-> 8],
       [name |-> "f8e4m3fn", fmt |-> format_info_ocp_e4m3, total_bits |-> 8],
       [name |-> "f4e2m1",   fmt |-> format_info_ocp_e2m1, total_bits |-> 4] >>

(***************************************************************************)
(* Python string and number formatting used by the loop body.              *)
(***************************************************************************)
DigitChar(d) == <<"0", "1", "2", "3", "4", "5", "6", "7", "8", "9">>[d + 1]

RECURSIVE IntDigits(_)
IntDigits(n) ==
    IF n < 10 THEN <<DigitChar(n)>>
    ELSE IntDigits(n \div 10) \o <<DigitChar(n % 10)>>

RECURSIVE BinDigits(_)
BinDigits(n) ==
    IF n < 2 THEN <<DigitChar(n)>>
    ELSE BinDigits(n \div 2) \o <<DigitChar(n % 2)>>

RECURSIVE ZeroPad(_, _)
ZeroPad(s, width) == IF Len(s) >= width THEN s ELSE ZeroPad(<<"0">> \o s, width)

(* format(bits, f'0{total_bits}b') *)
FormatBinary(b, width) == ZeroPad(BinDigits(b), width)

(* Exact decimal expansion of mant * 2^exp as an integer part and the      *)
(* digits after the point, by long division; a double holding such a      *)
(* value has this as its shortest round-trip digit string.                *)
RECURSIVE FracDigits(_, _)
FracDigits(r, n) ==
    IF r = 0 THEN <<>>
    ELSE <<(10 * r) \div 2^n>> \o FracDigits((10 * r) % 2^n, n)

ToDecimal(mant, exp) ==
    IF exp >= 0 THEN [int |-> mant * 2^exp, frac |-> <<>>]
    ELSE [int |-> mant \div 2^(-exp), frac |-> FracDigits(mant % 2^(-exp), -exp)]

RECURSIVE LeadingZeros(_)
LeadingZeros(frac) ==
    IF frac = <<>> \/ Head(frac) # 0 THEN 0 ELSE 1 + LeadingZeros(Tail(frac))

RECURSIVE DigitChars(_)
DigitChars(ds) ==
    IF ds = <<>> THEN <<>> ELSE <<DigitChar(Head(ds))>> \o DigitChars(Tail(ds))

(* repr of a non-negative finite double: fixed notation with at least one  *)
(* fractional digit, exponent notation when the first significant digit is *)
(* at the fifth place after the point or later.                            *)
ReprMagnitude(mant, exp) ==
    LET d  == ToDecimal(mant, exp)
        lz == LeadingZeros(d.frac)
    IN  IF d.int = 0 /\ d.frac # <<>> /\ lz >= 4
          THEN LET sig  == SubSeq(d.frac, lz + 1, Len(d.frac))
                   rest == Tail(sig)
               IN  <<DigitChar(Head(sig))>>
                   \o (IF rest = <<>> THEN <<>> ELSE <<".">> \o DigitChars(rest))
                   \o <<"e", "-">> \o ZeroPad(IntDigits(lz + 1), 2)
        ELSE IntDigits(d.int) \o <<".">>
             \o (IF d.frac = <<>> THEN <<"0">> ELSE DigitChars(d.frac))

(* repr(val) for a float that is zero or finite *)
repr(v) == (IF v.sign < 0 THEN <<"-">> ELSE <<>>) \o ReprMagnitude(v.mant, v.exp)

isnan(v) == v.tag = "NaN"

isinf(v) == v.tag = "Infinity"

(* val == 0.0 and math.copysign(1.0, val) < 0 *)
IsNegativeZero(v) == (v.tag = "Zero" \/ (v.tag = "Finite" /\ v.mant = 0)) /\ v.sign < 0

(* A chain without the negative-zero branch. *)
Render_NoNegativeZero(v) ==
    IF isnan(v) THEN <<"N", "a", "N">>
    ELSE IF isinf(v)
      THEN IF v.sign > 0 THEN <<"I", "n", "f", "i", "n", "i", "t", "y">>
                         ELSE <<"-", "I", "n", "f", "i", "n", "i", "t", "y">>
    ELSE repr(v)

(* The val_str chain of the loop body *)
Render(v) ==
    IF isnan(v) THEN <<"N", "a", "N">>
    ELSE IF isinf(v)
      THEN IF v.sign > 0 THEN <<"I", "n", "f", "i", "n", "i", "t", "y">>
                         ELSE <<"-", "I", "n", "f", "i", "n", "i", "t", "y">>
    ELSE IF IsNegativeZero(v) THEN <<"-", "0">>
    ELSE repr(v)

(* sub in s, for strings *)
Contains(s, sub) ==
    \E i \in 0 .. (Len(s) - Len(sub)) : SubSeq(s, i + 1, i + Len(sub)) = sub

(***************************************************************************)
(* The driver.                                                             *)
(***************************************************************************)
Unset == [tag |-> "unset", sign |-> 0, mant |-> 0, exp |-> 0]

NoFormat == [total_bits |-> 0, exponent_bits |-> 0, mantissa_bits |-> 0, bias |-> 0,
             has_infinity |-> FALSE, nan_mantissa_codes |-> {}]

(* A range that stops one short. *)
RangeStop_OneShort(tb) == 2^tb - 1

(* range(1 << total_bits): the values it yields are 0 .. RangeStop - 1 *)
RangeStop(tb) == 2^tb

(* {"bits": bits, "binary": binary, "decimal": val_str} *)
MakeEntry(b, bin, str) == [bits |-> b, binary |-> bin, decimal |-> str]

(* result[name] = entries, on an insertion-ordered dict *)
DictSet(d, k, v) ==
    IF \E i \in 1 .. Len(d) : d[i].name = k
      THEN [i \in 1 .. Len(d) |-> IF d[i].name = k THEN [name |-> k, entries |-> v] ELSE d[i]]
      ELSE Append(d, [name |-> k, entries |-> v])

(* sum(1 for e in entries if e["decimal"] == "NaN") *)
CountNans(es) == Cardinality({i \in 1 .. Len(es) : es[i].decimal = <<"N", "a", "N">>})

(* A count by equality, which misses "-Infinity". *)
CountInfs_ExactMatch(es) ==
    Cardinality({i \in 1 .. Len(es) :
                    es[i].decimal = <<"I", "n", "f", "i", "n", "i", "t", "y">>})

(* sum(1 for e in entries if "Infinity" in e["decimal"]) *)
CountInfs(es) ==
    Cardinality({i \in 1 .. Len(es) :
                    Contains(es[i].decimal, <<"I", "n", "f", "i", "n", "i", "t", "y">>)})

(* entries[:4] and entries[-4:] as the printed (binary, decimal) pairs *)
Shown(es) == [i \in 1 .. Len(es) |-> <<es[i].binary, es[i].decimal>>]

FirstFour(es) == SubSeq(Shown(es), 1, IF Len(es) < 4 THEN Len(es) ELSE 4)

LastFour(es) == SubSeq(Shown(es), IF Len(es) < 4 THEN 1 ELSE Len(es) - 3, Len(es))

Init ==
    /\ pc = "formats"
    /\ fi = 0
    /\ name = ""
    /\ fmt = NoFormat
    /\ total_bits = 0
    /\ it = 0
    /\ bits = 0
    /\ val = Unset
    /\ val_str = <<>>
    /\ binary = <<>>
    /\ entries = <<>>
    /\ result = <<>>
    /\ file = <<>>
    /\ si = 0
    /\ out = <<>>

(* for name, (fmt, total_bits) in FORMATS.items(): entries = [] *)
NextFormat ==
    /\ pc = "formats"
    /\ fi < Len(FORMATS)
    /\ fi' = fi + 1
    /\ name' = FORMATS[fi + 1].name
    /\ fmt' = FORMATS[fi + 1].fmt
    /\ total_bits' = FORMATS[fi + 1].total_bits
    /\ entries' = <<>>
    /\ it' = 0
    /\ pc' = "bits"
    /\ UNCHANGED <<bits, val, val_str, binary, result, file, si, out>>

(* one iteration of: for bits in range(1 << total_bits) *)
LoopBody ==
    /\ pc = "bits"
    /\ it < RangeStop(total_bits)
    /\ \E fv \in {decode_float(fmt, it)}, bin \in {FormatBinary(it, total_bits)} :
       \E str \in {Render(fv)} :
           /\ bits' = it
           /\ val' = fv
           /\ IF fv.tag = "ValueError"
                THEN /\ pc' = "error"
                     /\ UNCHANGED <<it, val_str, binary, entries>>
                ELSE /\ val_str' = str
                     /\ binary' = bin
                     /\ entries' = Append(entries, MakeEntry(it, bin, str))
                     /\ it' = it + 1
                     /\ pc' = "bits"
    /\ UNCHANGED <<fi, name, fmt, total_bits, result, file, si, out>>

(* the range is exhausted: result[name] = entries *)
StoreEntries ==
    /\ pc = "bits"
    /\ it >= RangeStop(total_bits)
    /\ result' = DictSet(result, name, entries)
    /\ pc' = "formats"
    /\ UNCHANGED <<fi, name, fmt, total_bits, it, bits, val, val_str, binary,
                   entries, file, si, out>>

(* FORMATS is exhausted: json.dump(result, f, indent=2) *)
Dump ==
    /\ pc = "formats"
    /\ fi >= Len(FORMATS)
    /\ file' = result
    /\ si' = 0
    /\ pc' = "summary"
    /\ UNCHANGED <<fi, name, fmt, total_bits, it, bits, val, val_str, binary,
                   entries, result, out>>

(* one iteration of: for name, entries in result.items(), printing *)
Summary ==
    /\ pc = "summary"
    /\ si < Len(result)
    /\ si' = si + 1
    /\ name' = result[si + 1].name
    /\ entries' = result[si + 1].entries
    /\ out' = Append(out, [name   |-> name',
                           values |-> Len(entries'),
                           nans   |-> CountNans(entries'),
                           infs   |-> CountInfs(entries'),
                           first  |-> FirstFour(entries'),
                           last   |-> LastFour(entries')])
    /\ UNCHANGED <<pc, fi, fmt, total_bits, it, bits, val, val_str, binary,
                   result, file>>

(* the script ends *)
Finish ==
    /\ pc = "summary"
    /\ si >= Len(result)
    /\ pc' = "done"
    /\ UNCHANGED <<fi, name, fmt, total_bits, it, bits, val, val_str, binary,
                   entries, result, file, si, out>>

Next == NextFormat \/ LoopBody \/ StoreEntries \/ Dump \/ Summary \/ Finish

Spec == Init /\ [][Next]_vars

(* The script is one sequential thread: it takes its next step whenever it has one. *)
LiveSpec == Spec /\ WF_vars(Next)

(***************************************************************************)
(* Vocabulary of the properties.                                           *)
(***************************************************************************)
(* bits, val and val_str are those of the iteration just executed *)
JustDecoded == pc = "bits" /\ it > 0

(* width of a descriptor: sign bit, exponent field, mantissa field *)
Width(f) == 1 + f.exponent_bits + f.mantissa_bits

(* b XOR 2^(tb - 1) *)
FlipSign(b, tb) ==
    IF (b \div 2^(tb - 1)) % 2 = 1 THEN b - 2^(tb - 1) ELSE b + 2^(tb - 1)

IsNumber(v) == v.tag \in {"Zero", "Finite"}

(* a.mant * 2^a.exp <= b.mant * 2^b.exp, for significands below 2^10,     *)
(* without forming numbers beyond 32 bits                                  *)
LeMag(a, b) ==
    IF a.mant = 0 THEN TRUE
    ELSE IF b.mant = 0 THEN FALSE
    ELSE IF a.exp >= b.exp
      THEN a.exp - b.exp <= 10 /\ a.mant * 2^(a.exp - b.exp) <= b.mant
      ELSE b.exp - a.exp > 10 \/ a.mant <= b.mant * 2^(b.exp - a.exp)

EqMag(a, b) == LeMag(a, b) /\ LeMag(b, a)

WellFormed(v) ==
    \/ v \in {Zero(1), Zero(-1), Infinity(1), Infinity(-1), NaN}
    \/ v.tag = "Finite" /\ v.sign \in {1, -1} /\ v.mant > 0

FormatIndex(nm) == (CHOOSE k \in 1 .. Len(FORMATS) : FORMATS[k].name = nm)

StrNaN == <<"N", "a", "N">>

StrInf == <<"I", "n", "f", "i", "n", "i", "t", "y">>

StrNegInf == <<"-", "I", "n", "f", "i", "n", "i", "t", "y">>

(***************************************************************************)
(* C1: for each configured format the stored entries number 2^total_bits  *)
(* and the entry at position i (from 0) has bits = i; the entries built   *)
(* so far are always such a prefix.                                        *)
(***************************************************************************)
C1_AscendingBits ==
    /\ \A i \in 1 .. Len(entries) : entries[i].bits = i - 1
    /\ \A k \in 1 .. Len(result) :
          /\ result[k].name = FORMATS[k].name
          /\ Len(result[k].entries) = 2^FORMATS[k].total_bits
          /\ \A i \in 1 .. Len(result[k].entries) : result[k].entries[i].bits = i - 1
    /\ pc \in {"summary", "done"} => Len(result) = Len(FORMATS) /\ file = result

C1_Witness == pc = "done" /\ Len(file) = 3 /\ Len(file[3].entries) = 16

(***************************************************************************)
(* C2 as stated: bit pattern 0 decodes to Zero(+1) and is rendered "0";   *)
(* the sign-bit-only pattern decodes to Zero(-1) and is rendered "-0".    *)
(***************************************************************************)
C2_ZeroPairAsStated ==
    JustDecoded =>
        /\ bits = 0 => val = Zero(1) /\ val_str = <<"0">> /\ entries[it].decimal = <<"0">>
        /\ bits = 2^(Width(fmt) - 1) =>
              val = Zero(-1) /\ val_str = <<"-", "0">> /\ entries[it].decimal = <<"-", "0">>

(***************************************************************************)
(* C2 amended: bit pattern 0 decodes to Zero(+1) and is rendered "0.0";   *)
(* the sign-bit-only pattern decodes to Zero(-1) and is rendered "-0".    *)
(***************************************************************************)
C2_ZeroPair ==
    JustDecoded =>
        /\ bits = 0 =>
              val = Zero(1) /\ val_str = <<"0", ".", "0">>
                            /\ entries[it].decimal = <<"0", ".", "0">>
        /\ bits = 2^(Width(fmt) - 1) =>
              val = Zero(-1) /\ val_str = <<"-", "0">> /\ entries[it].decimal = <<"-", "0">>

C2_Witness == JustDecoded /\ name = "f4e2m1" /\ bits = 8 /\ val_str = <<"-", "0">>

(***************************************************************************)
(* C3: sign preservation.  The value just decoded and the value of the    *)
(* pattern with the sign bit flipped have the same tag, and for Zero,     *)
(* Finite and Infinity the same magnitude and opposite signs.             *)
(***************************************************************************)
C3_SignPreservation ==
    JustDecoded =>
        LET other == decode_float(fmt, FlipSign(bits, total_bits))
        IN  /\ other.tag = val.tag
            /\ val.tag \in {"Zero", "Finite", "Infinity"} =>
                  /\ other.mant = val.mant
                  /\ other.exp = val.exp
                  /\ other.sign = -val.sign
                  /\ val.sign \in {1, -1}

C3_Witness == JustDecoded /\ name = "f8e5m2" /\ bits = 252 /\ val = Infinity(-1)

(***************************************************************************)
(* C4: in f8e4m3fn the largest finite magnitude is 448, exactly one       *)
(* pattern with sign bit 0 and one with sign bit 1 decode to NaN, none    *)
(* decodes to Infinity, and the max-exponent patterns other than the NaN  *)
(* code decode by the normal-number formula.                              *)
(***************************************************************************)
C4_FiniteOnlyFormat ==
    (pc = "bits" /\ name = "f8e4m3fn") =>
        LET dec(i) == decode_float(fmt, entries[i].bits)
            idx    == 1 .. Len(entries)
            max    == Finite(1, 448, 0)
        IN  /\ \A i \in idx :
                  /\ dec(i).tag # "Infinity"
                  /\ dec(i).tag = "Finite" => LeMag(dec(i), max)
                  /\ (exponent_field(fmt, entries[i].bits) = 15
                        /\ mantissa_field(fmt, entries[i].bits) # 7) =>
                        dec(i) = Finite(IF sign_bit(fmt, entries[i].bits) = 1 THEN -1 ELSE 1,
                                        8 + mantissa_field(fmt, entries[i].bits), 5)
            /\ JustDecoded => val = dec(it)
            /\ Len(entries) = 256 =>
                  /\ \E i \in idx : dec(i).tag = "Finite" /\ EqMag(dec(i), max)
                  /\ Cardinality({i \in idx : dec(i).tag = "NaN"
                                                /\ sign_bit(fmt, entries[i].bits) = 0}) = 1
                  /\ Cardinality({i \in idx : dec(i).tag = "NaN"
                                                /\ sign_bit(fmt, entries[i].bits) = 1}) = 1

C4_Witness ==
    pc = "bits" /\ name = "f8e4m3fn" /\ Len(entries) = 256
                /\ val = NaN /\ entries[127].decimal = <<"4", "4", "8", ".", "0">>

(***************************************************************************)
(* C5: in f8e5m2 the pattern 0b01111100 decodes to Infinity(+1) and the   *)
(* pattern 0b01111111 decodes to NaN.                                     *)
(***************************************************************************)
C5_InfAndNaN ==
    (JustDecoded /\ name = "f8e5m2") =>
        /\ bits = 124 => val = Infinity(1)
        /\ bits = 127 => val = NaN

C5_Witness == JustDecoded /\ name = "f8e5m2" /\ bits = 127 /\ entries[125].decimal = StrInf

(***************************************************************************)
(* C6: in f4e2m1 no pattern decodes to NaN or Infinity, and the stored    *)
(* enumeration has exactly 16 entries with pairwise distinct bits.        *)
(***************************************************************************)
C6_NoSpecials ==
    /\ (JustDecoded /\ name = "f4e2m1") =>
          /\ val.tag \notin {"NaN", "Infinity"}
          /\ \A i \in 1 .. Len(entries) :
                decode_float(fmt, entries[i].bits).tag \notin {"NaN", "Infinity"}
    /\ \A k \in 1 .. Len(result) :
          result[k].name = "f4e2m1" =>
             /\ Len(result[k].entries) = 16
             /\ \A i, j \in 1 .. Len(result[k].entries) :
                   i # j => result[k].entries[i].bits # result[k].entries[j].bits

C6_Witness ==
    pc = "done" /\ \E k \in 1 .. Len(result) : result[k].name = "f4e2m1"
                                                /\ Len(result[k].entries) = 16

(***************************************************************************)
(* C7: monotonicity.  For a fixed sign bit, when an earlier pattern and   *)
(* the pattern just decoded both give Zero or Finite, the earlier (lower  *)
(* exponent+mantissa field) magnitude is at most the later one.           *)
(***************************************************************************)
C7_Monotonic ==
    (JustDecoded /\ IsNumber(val)) =>
        \A i \in 1 .. (Len(entries) - 1) :
            LET a  == entries[i].bits
                va == decode_float(fmt, a)
            IN  (sign_bit(fmt, a) = sign_bit(fmt, bits)
                   /\ a % 2^(Width(fmt) - 1) < bits % 2^(Width(fmt) - 1)
                   /\ IsNumber(va)) => LeMag(va, val)

C7_Witness ==
    JustDecoded /\ name = "f8e5m2" /\ bits = 132 /\ val = Finite(-1, 4, -16)
                /\ decode_float(fmt, 131) = Finite(-1, 3, -16)

(***************************************************************************)
(* C8: totality.  Every decode the driver makes returns one well-formed   *)
(* Decoded Value (Zero, Finite, Infinity or NaN), never an error, and the *)
(* enumeration of all three formats terminates.                           *)
(***************************************************************************)
C8_Totality ==
    /\ [](pc # "error" /\ (JustDecoded => WellFormed(val)))
    /\ <>(pc = "done")

C8_Witness == pc = "done" /\ Len(out) = 3 /\ out[3].values = 16 /\ WellFormed(val)

(***************************************************************************)
(* C9: every decode call of the driver has 0 <= bits < 2^width of the     *)
(* descriptor it is paired with, the total_bits stored beside a format is *)
(* that descriptor's width, and the error state is never reached.         *)
(***************************************************************************)
C9_Precondition ==
    /\ pc # "error"
    /\ \A k \in 1 .. Len(FORMATS) : FORMATS[k].total_bits = Width(FORMATS[k].fmt)
    /\ pc = "bits" =>
          /\ total_bits = Width(fmt)
          /\ it < RangeStop(total_bits) => (0 <= it /\ it < 2^Width(fmt))
          /\ it > 0 => (0 <= bits /\ bits < 2^Width(fmt) /\ val # ValueError)

C9_Witness == JustDecoded /\ name = "f4e2m1" /\ bits = 15 /\ it = 16

(***************************************************************************)
(* C10: an entry's decimal is "NaN" exactly when the value is NaN,        *)
(* "Infinity" exactly when it is Infinity(+1), "-Infinity" exactly when   *)
(* it is Infinity(-1); the summary's NaN and Infinity counts equal the    *)
(* numbers of patterns decoding to NaN and to an Infinity of either sign. *)
(***************************************************************************)
C10_SpecialRendering ==
    /\ JustDecoded =>
          /\ entries[it].decimal = val_str
          /\ val_str = StrNaN <=> val = NaN
          /\ val_str = StrInf <=> val = Infinity(1)
          /\ val_str = StrNegInf <=> val = Infinity(-1)
    /\ \A k \in 1 .. Len(out) :
          LET f  == FORMATS[FormatIndex(out[k].name)].fmt
              es == result[k].entries
          IN  /\ result[k].name = out[k].name
              /\ out[k].values = Len(es)
              /\ out[k].nans = Cardinality({i \in 1 .. Len(es) :
                                   decode_float(f, es[i].bits).tag = "NaN"})
              /\ out[k].infs = Cardinality({i \in 1 .. Len(es) :
                                   decode_float(f, es[i].bits).tag = "Infinity"})

C10_Witness ==
    pc = "done" /\ out[1].name = "f8e5m2" /\ out[1].nans = 6 /\ out[1].infs = 2
                /\ out[2].nans = 2 /\ out[2].infs = 0

====
